---- MODULE Spec2Model ----
(***************************************************************************)
(* The trie persistence layer of casper-node's execution engine:           *)
(* LmdbTrieStore (a digest-keyed table of an LMDB environment) and         *)
(* ScratchTrieStore (an in-memory cache over it, flushed by                *)
(* write_root_to_db).                                                      *)
(***************************************************************************)
EXTENDS Integers, Sequences, FiniteSets, TLC

\* Number of distinct tries (and so of digests) in the universe.
MaxDigest == 4

\* The threads that hold a clone of the ScratchTrieStore or use the LmdbTrieStore.
Threads == {"t1", "t2"}

\* The threads that call get, whose read of the table falls between two
\* critical sections; every thread calls put and write_root_to_db.
Readers == {"t1"}

Digests == 1..MaxDigest

\* Option<T>
None == [some |-> FALSE]
Some(v) == [some |-> TRUE, value |-> v]

\* Result<T, error::Error>
Ok(v) == [ok |-> TRUE, value |-> v]
Err(e) == [ok |-> FALSE, error |-> e]

TrieNotFoundDuringCacheValidate(d) == [kind |-> "TrieNotFoundDuringCacheValidate", digest |-> d]

----------------------------------------------------------------------------
(* Tries *)

Leaf(k, v) == [tag |-> "Leaf", key |-> k, value |-> v]
Node(pb) == [tag |-> "Node", pointer_block |-> pb]
LeafPointer(d) == Some([tag |-> "LeafPointer", hash |-> d])
NodePointer(d) == Some([tag |-> "NodePointer", hash |-> d])

\* The tries of the universe, by digest: a leaf (1), two sibling nodes that point
\* at it from different slots (2, 3) and a node over both siblings (4); beyond
\* these, a further leaf at each odd digest and at the next even digest a node
\* over that leaf and leaf 1.
TrieOf(d) ==
    CASE d = 1 -> Leaf(0, 1)
      [] d = 2 -> Node(<<LeafPointer(1), None>>)
      [] d = 3 -> Node(<<None, LeafPointer(1)>>)
      [] d = 4 -> Node(<<NodePointer(2), NodePointer(3)>>)
      [] d > 4 /\ d % 2 = 1 -> Leaf(d, d)
      [] OTHER -> Node(<<LeafPointer(1), LeafPointer(d - 1)>>)

Tries == {TrieOf(d) : d \in Digests}

\* Digest::hash(&trie.to_bytes()): collision-free on the universe.
Hash(trie) == CHOOSE d \in Digests : TrieOf(d) = trie

\* SelectSeq without a higher-order argument: the occupied slots, in slot order.
RECURSIVE Occupied(_)
Occupied(pb) ==
    IF pb = <<>> THEN <<>>
    ELSE IF Head(pb).some THEN <<Head(pb).value.hash>> \o Occupied(Tail(pb))
         ELSE Occupied(Tail(pb))

\* Trie::children: None for a leaf, the digests of the occupied slots for a node.
children(trie) ==
    IF trie.tag = "Leaf" THEN None ELSE Some(Occupied(trie.pointer_block))

Range(s) == {s[i] : i \in DOMAIN s}

ChildSet(trie) == IF children(trie).some THEN Range(children(trie).value) ELSE {}

----------------------------------------------------------------------------
(* bytesrepr *)

PointerToBytes(p) ==
    IF ~p.some THEN <<0>>
    ELSE <<1, IF p.value.tag = "LeafPointer" THEN 0 ELSE 1, p.value.hash>>

RECURSIVE BlockToBytes(_)
BlockToBytes(pb) ==
    IF pb = <<>> THEN <<>> ELSE PointerToBytes(Head(pb)) \o BlockToBytes(Tail(pb))

\* ToBytes for Trie: a tag, then the fields.
ToBytes(trie) ==
    IF trie.tag = "Leaf" THEN <<0, trie.key, trie.value>>
    ELSE <<1>> \o BlockToBytes(trie.pointer_block)

RECURSIVE BlockFromBytes(_)
BlockFromBytes(bytes) ==
    IF bytes = <<>> THEN <<>>
    ELSE IF Head(bytes) = 0 THEN <<None>> \o BlockFromBytes(Tail(bytes))
    ELSE <<IF bytes[2] = 0 THEN LeafPointer(bytes[3]) ELSE NodePointer(bytes[3])>>
             \o BlockFromBytes(SubSeq(bytes, 4, Len(bytes)))

\* bytesrepr::deserialize for Trie.
FromBytes(bytes) ==
    IF Head(bytes) = 0 THEN Leaf(bytes[2], bytes[3])
    ELSE Node(BlockFromBytes(Tail(bytes)))

----------------------------------------------------------------------------
(* Maps: HashMap and the LMDB table are functions whose domain is the key set *)

Empty == <<>>

Insert(m, k, v) == [x \in (DOMAIN m) \cup {k} |-> IF x = k THEN v ELSE m[x]]

Remove(m, k) == [x \in (DOMAIN m) \ {k} |-> m[x]]

Lookup(m, k) == IF k \in DOMAIN m THEN Some(m[k]) ELSE None

\* m with every binding of w laid over it.
Overlay(m, w) == [x \in (DOMAIN m) \cup (DOMAIN w) |-> IF x \in DOMAIN w THEN w[x] ELSE m[x]]

----------------------------------------------------------------------------
(* State *)

VARIABLES
    cache,   \* ScratchCache.cache: Digest -> (dirty, trie)
    lock,    \* holder of the cache Mutex, "free", or "poisoned"
    db,      \* the committed content of LmdbTrieStore.db: Digest -> bytes
    txn,     \* the open read-write transaction of the LmdbEnvironment, or None
    pc,      \* each thread's position
    frame,   \* each thread's locals
    last     \* the call that returned last, with its result

vars == <<cache, lock, db, txn, pc, frame, last>>

Entry(dirty, trie) == <<dirty, trie>>
IsDirty(e) == e[1]
TrieIn(e) == e[2]

NoFrame == [op |-> "none"]

\* A variant of View in which every transaction reads the writes of the open
\* read-write transaction.
ViewUncommitted(t) ==
    IF txn.some THEN Overlay(db, txn.value.writes) ELSE db

\* What a thread's transaction reads: the committed table, under its own writes
\* when it is the open read-write transaction.
View(t) ==
    IF txn.some /\ txn.value.owner = t THEN Overlay(db, txn.value.writes) ELSE db

Init ==
    /\ cache = Empty
    /\ lock = "free"
    /\ db = Empty
    /\ txn = None
    /\ pc = [t \in Threads |-> "idle"]
    /\ frame = [t \in Threads |-> NoFrame]
    /\ last = [op |-> "none"]

Return(t, record) ==
    /\ pc' = [pc EXCEPT ![t] = "idle"]
    /\ frame' = [frame EXCEPT ![t] = NoFrame]
    /\ last' = record

----------------------------------------------------------------------------
(* ScratchTrieStore::put *)

\* A variant of PutEntry that keeps an entry that is already there.
PutEntryIfAbsent(c, digest, trie) ==
    IF digest \in DOMAIN c THEN c ELSE Insert(c, digest, Entry(TRUE, trie))

\* A variant of PutEntry that stores the first trie whatever is put.
PutEntryFirst(c, digest, trie) == Insert(c, digest, Entry(TRUE, TrieOf(1)))

\* cache.lock().insert(*digest, (true, trie.clone()))
PutEntry(c, digest, trie) == Insert(c, digest, Entry(TRUE, trie))

Put(t, digest) ==
    /\ pc[t] = "idle"
    /\ lock = "free"
    /\ cache' = PutEntry(cache, digest, TrieOf(digest))
    /\ Return(t, [op |-> "put", digest |-> digest, result |-> Ok("unit")])
    /\ UNCHANGED <<lock, db, txn>>

----------------------------------------------------------------------------
(* ScratchTrieStore::get *)

\* A variant of CacheGet that answers from dirty entries only.
CacheGetDirty(c, digest) == IF digest \in DOMAIN c /\ IsDirty(c[digest]) THEN Some(c[digest]) ELSE None

\* cache.lock().get(digest).cloned()
CacheGet(c, digest) == Lookup(c, digest)

\* The first critical section.
GetCached(t, digest) ==
    /\ t \in Readers
    /\ pc[t] = "idle"
    /\ lock = "free"
    /\ LET maybe_trie == CacheGet(cache, digest)
       IN IF maybe_trie.some
          THEN Return(t, [op |-> "get", digest |-> digest,
                          result |-> Ok(Some(TrieIn(maybe_trie.value))),
                          raw_read |-> FALSE])
          ELSE /\ pc' = [pc EXCEPT ![t] = "get_raw"]
               /\ frame' = [frame EXCEPT ![t] = [op |-> "get", digest |-> digest]]
               /\ UNCHANGED last
    /\ UNCHANGED <<cache, lock, db, txn>>

\* self.get_raw(txn, digest) and bytesrepr::deserialize, outside the lock
GetRaw(t) ==
    /\ pc[t] = "get_raw"
    /\ LET digest == frame[t].digest
           raw == Lookup(View(t), digest)
       IN IF raw.some
          THEN /\ pc' = [pc EXCEPT ![t] = "get_insert"]
               /\ frame' = [frame EXCEPT ![t] =
                               [op |-> "get", digest |-> digest, value |-> FromBytes(raw.value)]]
               /\ UNCHANGED last
          ELSE Return(t, [op |-> "get", digest |-> digest,
                          result |-> Ok(None), raw_read |-> TRUE])
    /\ UNCHANGED <<cache, lock, db, txn>>

\* A variant of InsertClean that inserts without looking.
InsertCleanAlways(c, digest, value) == Insert(c, digest, Entry(FALSE, value))

\* A variant of InsertClean that never populates the cache.
InsertCleanNever(c, digest, value) == c

\* The second critical section: insert the clean entry unless the key is there.
InsertClean(c, digest, value) ==
    IF digest \notin DOMAIN c THEN Insert(c, digest, Entry(FALSE, value)) ELSE c

GetInsert(t) ==
    /\ pc[t] = "get_insert"
    /\ lock = "free"
    /\ cache' = InsertClean(cache, frame[t].digest, frame[t].value)
    /\ Return(t, [op |-> "get", digest |-> frame[t].digest,
                  result |-> Ok(Some(frame[t].value)), raw_read |-> TRUE])
    /\ UNCHANGED <<lock, db, txn>>

----------------------------------------------------------------------------
(* ScratchTrieStore::write_root_to_db *)

\* A variant of Commit that keeps nothing.
CommitNothing(table, w) == table

\* What the table holds once a transaction with these writes has committed.
Commit(table, w) == Overlay(table, w)

\* A variant of Abort that keeps the writes.
AbortKeepsWrites(table, w) == Overlay(table, w)

\* What the table holds once a transaction with these writes was dropped
\* without commit.
Abort(table, w) == table

FlushReturn(t, result) ==
    Return(t, [op |-> "flush", root |-> frame[t].root, result |-> result,
               cache0 |-> frame[t].cache0, db0 |-> frame[t].db0,
               written |-> DOMAIN txn.value.writes])

\* A variant of FlushBegin that lets go of the cache lock at once.
FlushBeginUnlocked(t, state_root) ==
    /\ pc[t] = "idle"
    /\ lock = "free"
    /\ ~txn.some
    /\ lock' = "free"
    /\ txn' = Some([owner |-> t, writes |-> Empty])
    /\ pc' = [pc EXCEPT ![t] = "flush_loop"]
    /\ frame' = [frame EXCEPT ![t] =
                    [op |-> "flush", root |-> state_root,
                     missing_trie_keys |-> <<state_root>>,
                     validated_tries |-> Empty,
                     cache0 |-> cache, db0 |-> db]]
    /\ UNCHANGED <<cache, db, last>>

\* Takes the cache lock for the whole call, seeds the work stack and opens the
\* read-write transaction. cache0 and db0 remember the state at the call.
FlushBegin(t, state_root) ==
    /\ pc[t] = "idle"
    /\ lock = "free"
    /\ ~txn.some
    /\ lock' = t
    /\ txn' = Some([owner |-> t, writes |-> Empty])
    /\ pc' = [pc EXCEPT ![t] = "flush_loop"]
    /\ frame' = [frame EXCEPT ![t] =
                    [op |-> "flush", root |-> state_root,
                     missing_trie_keys |-> <<state_root>>,
                     validated_tries |-> Empty,
                     cache0 |-> cache, db0 |-> db]]
    /\ UNCHANGED <<cache, db, last>>

\* A variant of Visit that takes clean entries for dirty ones.
VisitAllDirty(c, view, next_trie_key) ==
    IF DOMAIN c = {} THEN "not_found"
    ELSE LET removed == Lookup(c, next_trie_key)
         IN IF removed.some THEN "dirty"
            ELSE IF Lookup(view, next_trie_key).some THEN "durable" ELSE "not_found"

\* A variant of Visit without the is_empty check.
VisitNonEmpty(c, view, next_trie_key) ==
    LET removed == Lookup(c, next_trie_key)
    IN IF removed.some
       THEN IF IsDirty(removed.value) THEN "dirty" ELSE "clean"
       ELSE IF Lookup(view, next_trie_key).some THEN "durable" ELSE "not_found"

\* A variant of Visit that takes a key missing from the cache for durable
\* without reading the table.
VisitTrusting(c, view, next_trie_key) ==
    IF DOMAIN c = {} THEN "not_found"
    ELSE LET removed == Lookup(c, next_trie_key)
         IN IF removed.some
            THEN IF IsDirty(removed.value) THEN "dirty" ELSE "clean"
            ELSE "durable"

\* What one iteration of the while loop decides for the popped key, given the
\* cache as it is and the entry removed from it.
Visit(c, view, next_trie_key) ==
    IF DOMAIN c = {} THEN "not_found"
    ELSE LET removed == Lookup(c, next_trie_key)
         IN IF removed.some
            THEN IF IsDirty(removed.value) THEN "dirty" ELSE "clean"
            ELSE IF Lookup(view, next_trie_key).some THEN "durable" ELSE "not_found"

\* A variant of AfterRemove that takes only clean entries out of the cache.
AfterRemoveClean(c, next_trie_key) ==
    IF next_trie_key \in DOMAIN c /\ ~IsDirty(c[next_trie_key])
    THEN Remove(c, next_trie_key)
    ELSE c

\* A variant of AfterRemove that leaves the popped entry in the cache.
AfterRemoveKeeps(c, next_trie_key) == c

\* The cache after the iteration: cache.remove(&next_trie_key), unless the
\* is_empty check returned first.
AfterRemove(c, next_trie_key) ==
    IF DOMAIN c = {} THEN c ELSE Remove(c, next_trie_key)

\* A variant of Extend that pushes the last child only.
ExtendLast(rest, trie) ==
    IF children(trie).some /\ children(trie).value # <<>>
    THEN rest \o <<children(trie).value[Len(children(trie).value)]>>
    ELSE rest

\* A variant of Extend that pushes no children.
ExtendNothing(rest, trie) == rest

\* The work stack after the iteration: the popped key gone, the children of a
\* dirty trie pushed.
Extend(rest, trie) ==
    IF children(trie).some THEN rest \o children(trie).value ELSE rest

FlushPop(t) ==
    /\ pc[t] = "flush_loop"
    /\ LET f == frame[t]
           stack == f.missing_trie_keys
           next_trie_key == stack[Len(stack)]
           rest == SubSeq(stack, 1, Len(stack) - 1)
           outcome == Visit(cache, View(t), next_trie_key)
       IN /\ cache' = AfterRemove(cache, next_trie_key)
          /\ IF outcome = "not_found"
             THEN /\ FlushReturn(t, Err(TrieNotFoundDuringCacheValidate(next_trie_key)))
                  /\ lock' = "free"
                  /\ txn' = None
                  /\ db' = Abort(db, txn.value.writes)
             ELSE LET trie == TrieIn(cache[next_trie_key])
                      stack2 == IF outcome = "dirty" THEN Extend(rest, trie) ELSE rest
                      validated2 == IF outcome = "dirty"
                                    THEN Insert(f.validated_tries, next_trie_key, trie)
                                    ELSE f.validated_tries
                  IN /\ frame' = [frame EXCEPT ![t] =
                                      [f EXCEPT !.missing_trie_keys = stack2,
                                                !.validated_tries = validated2]]
                     /\ pc' = [pc EXCEPT ![t] =
                                   IF stack2 = <<>> THEN "flush_write" ELSE "flush_loop"]
                     /\ UNCHANGED <<lock, txn, db, last>>

\* Store::put on the LmdbTrieStore: the bytes of the trie under the digest, in
\* the writes of the transaction.
StorePut(w, digest, trie) == Insert(w, digest, ToBytes(trie))

\* A variant of FlushWrite that puts into the table outside the transaction.
FlushWriteThrough(t) ==
    /\ pc[t] = "flush_write"
    /\ \E digest \in DOMAIN frame[t].validated_tries \ DOMAIN txn.value.writes :
          /\ txn' = Some([txn.value EXCEPT !.writes =
                             StorePut(@, digest, frame[t].validated_tries[digest])])
          /\ db' = StorePut(db, digest, frame[t].validated_tries[digest])
    /\ UNCHANGED <<cache, lock, pc, frame, last>>

\* One iteration of the loop over validated_tries (a HashMap: any order).
FlushWrite(t) ==
    /\ pc[t] = "flush_write"
    /\ \E digest \in DOMAIN frame[t].validated_tries \ DOMAIN txn.value.writes :
          txn' = Some([txn.value EXCEPT !.writes =
                          StorePut(@, digest, frame[t].validated_tries[digest])])
    /\ UNCHANGED <<cache, lock, db, pc, frame, last>>

\* txn.commit(), then the return, which releases the lock.
FlushCommit(t) ==
    /\ pc[t] = "flush_write"
    /\ DOMAIN frame[t].validated_tries = DOMAIN txn.value.writes
    /\ db' = Commit(db, txn.value.writes)
    /\ txn' = None
    /\ lock' = "free"
    /\ FlushReturn(t, Ok("unit"))
    /\ UNCHANGED cache

----------------------------------------------------------------------------
(* Failures of the LMDB environment inside write_root_to_db *)

LmdbError == [kind |-> "Lmdb"]

\* store.put(&mut txn, digest, trie)? returns the error: the transaction is
\* dropped with the writes made so far.
FlushPutFail(t) ==
    /\ pc[t] = "flush_write"
    /\ DOMAIN frame[t].validated_tries # DOMAIN txn.value.writes
    /\ db' = Abort(db, txn.value.writes)
    /\ txn' = None
    /\ lock' = "free"
    /\ FlushReturn(t, Err(LmdbError))
    /\ UNCHANGED cache

\* txn.commit()? returns the error: nothing of the transaction is kept.
FlushCommitFail(t) ==
    /\ pc[t] = "flush_write"
    /\ DOMAIN frame[t].validated_tries = DOMAIN txn.value.writes
    /\ db' = Abort(db, txn.value.writes)
    /\ txn' = None
    /\ lock' = "free"
    /\ FlushReturn(t, Err(LmdbError))
    /\ UNCHANGED cache

----------------------------------------------------------------------------
(* LmdbTrieStore used directly, as in the module's usage example *)

\* Store::get on the LmdbTrieStore: the bytes under the digest, deserialized.
StoreGet(view, digest) ==
    IF digest \in DOMAIN view THEN Some(FromBytes(view[digest])) ELSE None

\* env.create_read_write_txn(): LMDB has one writer at a time.
CreateReadWriteTxn(t) ==
    /\ pc[t] = "idle"
    /\ ~txn.some
    /\ txn' = Some([owner |-> t, writes |-> Empty])
    /\ pc' = [pc EXCEPT ![t] = "rw_txn"]
    /\ frame' = [frame EXCEPT ![t] = [op |-> "rw_txn", db0 |-> db, puts |-> {}]]
    /\ UNCHANGED <<cache, lock, db, last>>

\* store.put(&mut txn, &hash, &trie) with hash = Digest::hash(&trie.to_bytes())
LmdbPut(t, trie) ==
    /\ pc[t] = "rw_txn"
    /\ txn' = Some([txn.value EXCEPT !.writes = StorePut(@, Hash(trie), trie)])
    /\ frame' = [frame EXCEPT ![t].puts = @ \cup {trie}]
    /\ UNCHANGED <<cache, lock, db, pc, last>>

\* The transaction goes out of scope without commit.
TxnDrop(t) ==
    /\ pc[t] = "rw_txn"
    /\ db' = Abort(db, txn.value.writes)
    /\ txn' = None
    /\ Return(t, [op |-> "drop", db0 |-> frame[t].db0, puts |-> frame[t].puts])
    /\ UNCHANGED <<cache, lock>>

TxnCommit(t) ==
    /\ pc[t] = "rw_txn"
    /\ db' = Commit(db, txn.value.writes)
    /\ txn' = None
    /\ Return(t, [op |-> "commit", db0 |-> frame[t].db0, puts |-> frame[t].puts])
    /\ UNCHANGED <<cache, lock>>

\* store.get(&txn, hash) in a read transaction of its own.
LmdbGet(t, digest) ==
    /\ pc[t] = "idle"
    /\ Return(t, [op |-> "lmdb_get", digest |-> digest, result |-> Ok(StoreGet(View(t), digest))])
    /\ UNCHANGED <<cache, lock, db, txn>>

----------------------------------------------------------------------------
(* The poisoned cache Mutex: lock() returns Err, mapped to Error::Poison *)

Poison == [kind |-> "Poison"]

\* A thread panics while it holds the cache lock, which it does for the whole
\* of write_root_to_db: unwinding drops the transaction without commit and the
\* guard, and the dropped guard poisons the Mutex for every clone.
Panic(t) ==
    /\ pc[t] \in {"flush_loop", "flush_write"}
    /\ lock = t
    /\ lock' = "poisoned"
    /\ db' = Abort(db, txn.value.writes)
    /\ txn' = None
    /\ pc' = [pc EXCEPT ![t] = "panicked"]
    /\ frame' = [frame EXCEPT ![t] = NoFrame]
    /\ last' = [op |-> "panic"]
    /\ UNCHANGED cache

\* A variant of PutPoisoned that inserts into the poisoned cache and returns Ok.
PutPoisonedInserts(t, digest) ==
    /\ pc[t] = "idle"
    /\ lock = "poisoned"
    /\ cache' = PutEntry(cache, digest, TrieOf(digest))
    /\ Return(t, [op |-> "put", digest |-> digest, result |-> Ok("unit")])
    /\ UNCHANGED <<lock, db, txn>>

\* put: cache.lock().map_err(|_| error::Error::Poison)? returns the error.
PutPoisoned(t, digest) ==
    /\ pc[t] = "idle"
    /\ lock = "poisoned"
    /\ Return(t, [op |-> "put", digest |-> digest, result |-> Err(Poison)])
    /\ UNCHANGED <<cache, lock, db, txn>>

\* get: the lock() of the first critical section returns the error.
GetPoisoned(t, digest) ==
    /\ t \in Readers
    /\ pc[t] = "idle"
    /\ lock = "poisoned"
    /\ Return(t, [op |-> "get", digest |-> digest, result |-> Err(Poison),
                  raw_read |-> FALSE])
    /\ UNCHANGED <<cache, lock, db, txn>>

\* get: the lock() of the second critical section returns the error, after the
\* table was read.
GetInsertPoisoned(t) ==
    /\ pc[t] = "get_insert"
    /\ lock = "poisoned"
    /\ Return(t, [op |-> "get", digest |-> frame[t].digest, result |-> Err(Poison),
                  raw_read |-> TRUE])
    /\ UNCHANGED <<cache, lock, db, txn>>

\* write_root_to_db: lock() returns the error before the stack is seeded and
\* before the transaction is created.
FlushPoisoned(t, state_root) ==
    /\ pc[t] = "idle"
    /\ lock = "poisoned"
    /\ Return(t, [op |-> "flush", root |-> state_root, result |-> Err(Poison),
                  cache0 |-> cache, db0 |-> db, written |-> {}])
    /\ UNCHANGED <<cache, lock, db, txn>>

----------------------------------------------------------------------------
(* network::connection_id: ConnectionId, TraceId and Role *)

\* Digest::LENGTH, scaled down to the least length the const_assert admits.
DigestLength == 12

\* KeyFingerprint::LENGTH, at least Digest::LENGTH.
KeyFingerprintLength == DigestLength + 2

MAGIC_FLAG == 170

\* ^ on w-bit operands.
RECURSIVE BitXor(_, _, _)
BitXor(a, b, w) ==
    IF w = 0 THEN 0
    ELSE (((a % 2) + (b % 2)) % 2) + 2 * BitXor(a \div 2, b \div 2, w - 1)

\* ! on a u8.
BitNot(a) == BitXor(a, 255, 8)

\* utils::xor(lhs, rhs): lhs[i] ^= rhs[i] over slices of one length.
xor(lhs, rhs) == [i \in 1..Len(lhs) |-> BitXor(lhs[i], rhs[i], 8)]

\* Digest::hash(data).value(): DigestLength bytes, every one of which depends on
\* every byte of the data and on its position.
RECURSIVE WeightedSum(_, _, _)
WeightedSum(data, i, j) ==
    IF j > Len(data) THEN Len(data)
    ELSE ((i + j) * data[j] + WeightedSum(data, i, j + 1)) % 256

DigestHash(data) == [i \in 1..DigestLength |-> WeightedSum(data, i, 1)]

\* u64::to_ne_bytes: the eight bytes of count in the byte order of the target.
ToNeBytes(count, endian) ==
    LET le == [i \in 1..8 |-> IF i <= 3 THEN (count \div (256 ^ (i - 1))) % 256 ELSE 0]
    IN IF endian = "little" THEN le ELSE [i \in 1..8 |-> le[9 - i]]

\* A variant of create that mixes in the hash of our_id only.
createOurs(random_data, our_id, their_id) ==
    xor(DigestHash(random_data), SubSeq(our_id, 1, DigestLength))

\* ConnectionId::create
create(random_data, our_id, their_id) ==
    LET id == DigestHash(random_data)
        id1 == xor(id, SubSeq(our_id, 1, DigestLength))
    IN xor(id1, SubSeq(their_id, 1, DigestLength))

\* Role::out_flag
out_flag(role) == IF role = "Dialer" THEN MAGIC_FLAG ELSE BitNot(MAGIC_FLAG)

\* A variant of in_flag that leaves out the complement.
in_flagSame(role) == out_flag(role)

\* Role::in_flag
in_flag(role) == BitNot(out_flag(role))

\* The buffer create_trace_id hashes: the id with the flag XORed into its first
\* byte and the count into bytes 4..12.
TraceBuffer(id, flag, count, endian) ==
    LET buffer == [id EXCEPT ![1] = BitXor(id[1], flag, 8)]
        mixed == xor(SubSeq(buffer, 5, 12), ToNeBytes(count, endian))
    IN [i \in 1..Len(buffer) |-> IF i \in 5..12 THEN mixed[i - 4] ELSE buffer[i]]

\* ConnectionId::create_trace_id
create_trace_id(id, flag, count, endian) ==
    SubSeq(DigestHash(TraceBuffer(id, flag, count, endian)), 1, 8)

Roles == {"Dialer", "Listener"}

RoleOf(t) == IF t = "t1" THEN "Dialer" ELSE "Listener"

\* TlsRandomData.combined_random values: all zeros (ZERO_RANDOMNESS) and two more.
RandomData == {[i \in 1..12 |-> 0], [i \in 1..12 |-> ((37 * i) % 256)]}

\* NodeId::hash_bytes values.
NodeIds == {[i \in 1..KeyFingerprintLength |-> ((k * i + k) % 256)] : k \in {1, 201}}

Counts == {0, 1, 256}

Endians == {"little", "big"}

\* The two ends of one connection before either derived its ConnectionId: the
\* same random data at both, the node ids swapped, one build target.
InitConn ==
    /\ cache = Empty
    /\ lock = "free"
    /\ db = Empty
    /\ txn = None
    /\ last = [op |-> "none"]
    /\ pc = [t \in Threads |-> "connecting"]
    /\ \E random_data \in RandomData, a \in NodeIds, b \in NodeIds, endian \in Endians :
          frame = [t \in Threads |->
                      [op |-> "connection",
                       random_data |-> random_data,
                       our_id |-> IF t = "t1" THEN a ELSE b,
                       their_id |-> IF t = "t1" THEN b ELSE a,
                       endian |-> endian,
                       id |-> None, out |-> None, in |-> None]]

\* ConnectionId::from_connection at the end t.
ConnCreate(t) ==
    /\ pc[t] = "connecting"
    /\ pc' = [pc EXCEPT ![t] = "connected"]
    /\ frame' = [frame EXCEPT ![t].id =
                    Some(create(frame[t].random_data, frame[t].our_id, frame[t].their_id))]
    /\ UNCHANGED <<cache, lock, db, txn, last>>

TraceRecord(id, flag, count, endian) ==
    [flag |-> flag, count |-> count,
     buffer |-> TraceBuffer(id, flag, count, endian),
     trace_id |-> create_trace_id(id, flag, count, endian)]

\* The end t serializes its message number count.
TraceOut(t, count) ==
    /\ pc[t] = "connected"
    /\ frame' = [frame EXCEPT ![t].out =
                    Some(TraceRecord(frame[t].id.value, out_flag(RoleOf(t)), count,
                                     frame[t].endian))]
    /\ UNCHANGED <<cache, lock, db, txn, pc, last>>

\* The end t deserializes the message number count of its peer.
TraceIn(t, count) ==
    /\ pc[t] = "connected"
    /\ frame' = [frame EXCEPT ![t].in =
                    Some(TraceRecord(frame[t].id.value, in_flag(RoleOf(t)), count,
                                     frame[t].endian))]
    /\ UNCHANGED <<cache, lock, db, txn, pc, last>>

----------------------------------------------------------------------------
(* put of a trie under a digest that is not its own: put takes both from the
   caller and does not hash *)

\* Nodes with one child, the digest 1 or 2: put under the digest 1 they close a
\* cycle of one digest, or of two with the node of 2, whose child is 1.
LoopTries == {Node(<<NodePointer(k), None>>) : k \in {1, 2}}

\* ScratchTrieStore::put(txn, digest, trie) with any pair of digest and trie.
PutAny(t, digest, trie) ==
    /\ pc[t] = "idle"
    /\ lock = "free"
    /\ cache' = PutEntry(cache, digest, trie)
    /\ Return(t, [op |-> "put", digest |-> digest, result |-> Ok("unit")])
    /\ UNCHANGED <<lock, db, txn>>

----------------------------------------------------------------------------
(* global-state-update-gen: StateTracker *)

\* The largest balance and amount drawn.
MaxMotes == 2

\* U512::MAX, scaled down; + and - on U512 panic when the result leaves the type.
U512Max == 15

AccountHashes == {1, 2}

\* URefs: the main purse of the account a in the global state is a; the others
\* are what rng.gen() can produce in create_purse.
URefs == 1..4

TOTAL_SUPPLY_KEY == <<"TotalSupply", 0>>
KeyURef(purse) == <<"URef", purse>>
KeyBalance(purse) == <<"Balance", purse>>
KeyAccount(account_hash) == <<"Account", account_hash>>

CLValueUnit == <<"unit", 0>>
CLValueU512(n) == <<"U512", n>>
StoredAccount(main_purse) == <<"Account", main_purse>>

\* U512 + U512
CheckedAdd(a, b) == IF a + b > U512Max THEN None ELSE Some(a + b)

\* U512 - U512
CheckedSub(a, b) == IF a < b THEN None ELSE Some(a - b)

Panicked(tr) == [tracker |-> tr, panic |-> TRUE]
Done(tr) == [tracker |-> tr, panic |-> FALSE]

\* StateTracker::write_entry
write_entry(tr, key, value) ==
    [tr EXCEPT !.entries_to_write = Insert(@, key, value)]

\* StateTracker::increase_supply
increase_supply(tr, to_add) ==
    LET sum == CheckedAdd(tr.total_supply, to_add)
    IN IF ~sum.some THEN Panicked(tr)
       ELSE Done(write_entry([tr EXCEPT !.total_supply = sum.value],
                             TOTAL_SUPPLY_KEY, CLValueU512(sum.value)))

\* StateTracker::decrease_supply
decrease_supply(tr, to_sub) ==
    LET rest == CheckedSub(tr.total_supply, to_sub)
    IN IF ~rest.some THEN Panicked(tr)
       ELSE Done(write_entry([tr EXCEPT !.total_supply = rest.value],
                             TOTAL_SUPPLY_KEY, CLValueU512(rest.value)))

\* builder.get_purse_balance: the balance in the global state; for a purse the
\* global state does not hold, what the builder does (unknown: a balance, or
\* None for a panic).
BuilderGetPurseBalance(tr, purse, unknown) ==
    IF purse \in DOMAIN tr.builder_balances THEN Some(tr.builder_balances[purse])
    ELSE unknown

\* StateTracker::get_purse_balance
get_purse_balance(tr, purse, unknown) ==
    IF purse \in DOMAIN tr.purses_cache
    THEN [tracker |-> tr, panic |-> FALSE, amount |-> tr.purses_cache[purse]]
    ELSE LET amount == BuilderGetPurseBalance(tr, purse, unknown)
         IN IF ~amount.some
            THEN [tracker |-> tr, panic |-> TRUE, amount |-> 0]
            ELSE [tracker |-> [tr EXCEPT !.purses_cache = Insert(@, purse, amount.value)],
                  panic |-> FALSE, amount |-> amount.value]

\* StateTracker::set_purse_balance
set_purse_balance(tr, purse, balance, unknown) ==
    LET got == get_purse_balance(tr, purse, unknown)
        current_balance == got.amount
        tr1 == got.tracker
        adjusted ==
            IF balance < current_balance
            THEN LET to_add == CheckedSub(balance, current_balance)
                 IN IF ~to_add.some THEN Panicked(tr1)
                    ELSE increase_supply(tr1, to_add.value)
            ELSE LET to_sub == CheckedSub(current_balance, balance)
                 IN IF ~to_sub.some THEN Panicked(tr1)
                    ELSE decrease_supply(tr1, to_sub.value)
    IN IF got.panic THEN Panicked(tr1)
       ELSE IF balance = current_balance THEN Done(tr1)
       ELSE IF adjusted.panic THEN adjusted
       ELSE LET tr2 == write_entry(adjusted.tracker, KeyBalance(purse), CLValueU512(balance))
            IN Done([tr2 EXCEPT !.purses_cache = Insert(@, purse, balance)])

\* StateTracker::get_account: the main purse of the account, or None.
get_account(tr, account_hash) ==
    IF account_hash \in DOMAIN tr.accounts_cache
    THEN [tracker |-> tr, account |-> Some(tr.accounts_cache[account_hash])]
    ELSE IF account_hash \in DOMAIN tr.builder_accounts
    THEN [tracker |-> [tr EXCEPT !.accounts_cache =
                          Insert(@, account_hash, tr.builder_accounts[account_hash])],
          account |-> Some(tr.builder_accounts[account_hash])]
    ELSE [tracker |-> tr, account |-> None]

\* StateTracker::create_purse, with new_purse what rng.gen() gave.
create_purse(tr, amount, new_purse, unknown) ==
    set_purse_balance(write_entry(tr, KeyURef(new_purse), CLValueUnit),
                      new_purse, amount, unknown)

\* StateTracker::create_account
create_account(tr, account_hash, amount, new_purse, unknown) ==
    LET made == create_purse(tr, amount, new_purse, unknown)
        tr1 == [made.tracker EXCEPT !.accounts_cache = Insert(@, account_hash, new_purse)]
    IN IF made.panic THEN made
       ELSE Done(write_entry(tr1, KeyAccount(account_hash), StoredAccount(new_purse)))

Transfer(from, to, amount) == [from |-> from, to |-> to, amount |-> amount]

Returned(tr, how) == [tracker |-> tr, panic |-> FALSE, how |-> how]
Aborted(tr) == [tracker |-> tr, panic |-> TRUE, how |-> "panic"]

\* execute_transfer, lines 175-179: the 'to' account, created with an empty
\* main purse when there is none.
GetOrCreateAccount(tr, account_hash, new_purse, unknown) ==
    LET found == get_account(tr, account_hash)
    IN IF found.account.some
       THEN [tracker |-> found.tracker, panic |-> FALSE, main_purse |-> found.account.value]
       ELSE LET created == create_account(tr, account_hash, 0, new_purse, unknown)
            IN [tracker |-> created.tracker, panic |-> created.panic,
                main_purse |-> new_purse]

\* The purses the tracker or the global state knows.
KnownPurses(tr) == DOMAIN tr.builder_balances \cup DOMAIN tr.purses_cache

\* A tracker just made by StateTracker::new over a global state with some of
\* the accounts, each with its main purse, and a total supply that covers them.
Trackers ==
    {[op |-> "tracker",
      builder_accounts |-> [a \in existing |-> a],
      builder_balances |-> balances,
      entries_to_write |-> Empty,
      total_supply |-> total_supply,
      accounts_cache |-> Empty,
      purses_cache |-> Empty] :
        existing \in SUBSET AccountHashes,
        balances \in UNION {[ex -> 0..MaxMotes] : ex \in SUBSET AccountHashes},
        total_supply \in 0..(2 * MaxMotes + 1)}

RECURSIVE SumOver(_, _)
SumOver(f, S) ==
    IF S = {} THEN 0
    ELSE LET x == CHOOSE y \in S : TRUE IN f[x] + SumOver(f, S \ {x})

InitTracker ==
    /\ cache = Empty
    /\ lock = "free"
    /\ db = Empty
    /\ txn = None
    /\ last = [op |-> "none"]
    /\ pc = [t \in Threads |-> "idle"]
    /\ \E tr \in Trackers :
          /\ DOMAIN tr.builder_balances = DOMAIN tr.builder_accounts
          /\ tr.total_supply >= SumOver(tr.builder_balances, DOMAIN tr.builder_balances)
          /\ frame = [t \in Threads |-> IF t = "t1" THEN tr ELSE NoFrame]

\* The call returns, or the process dies in a panic.
TrackerReturn(t, outcome, record) ==
    /\ pc' = [pc EXCEPT ![t] = IF outcome.panic THEN "panicked" ELSE "idle"]
    /\ frame' = [frame EXCEPT ![t] = outcome.tracker]
    /\ last' = record
    /\ UNCHANGED <<cache, lock, db, txn>>

GetPurseBalance(t, purse) ==
    /\ pc[t] = "idle" /\ frame[t].op = "tracker"
    /\ purse \in KnownPurses(frame[t])
    /\ LET got == get_purse_balance(frame[t], purse, None)
       IN TrackerReturn(t, got, [op |-> "get_purse_balance", purse |-> purse,
                                 panic |-> got.panic, amount |-> got.amount,
                                 before |-> frame[t], after |-> got.tracker])

SetPurseBalance(t, purse, balance) ==
    /\ pc[t] = "idle" /\ frame[t].op = "tracker"
    /\ purse \in KnownPurses(frame[t])
    /\ LET set == set_purse_balance(frame[t], purse, balance, None)
       IN TrackerReturn(t, set, [op |-> "set_purse_balance", purse |-> purse,
                                 balance |-> balance, panic |-> set.panic,
                                 before |-> frame[t], after |-> set.tracker])

TransferReturn(t, transfer, outcome) ==
    TrackerReturn(t, outcome, [op |-> "execute_transfer", transfer |-> transfer,
                               panic |-> outcome.panic, how |-> outcome.how,
                               before |-> frame[t], after |-> outcome.tracker])

\* StateTracker::execute_transfer, statement by statement; each local is bound
\* to its value once.
ExecuteTransfer(t, transfer) ==
    /\ pc[t] = "idle" /\ frame[t].op = "tracker"
    /\ \E new_purse \in URefs \ KnownPurses(frame[t]), unknown \in {Some(0), None} :
       \E from_account \in {get_account(frame[t], transfer.from)} :
       IF ~from_account.account.some
       THEN TransferReturn(t, transfer, Returned(from_account.tracker, "no_from"))
       ELSE
       \E to_account \in {GetOrCreateAccount(from_account.tracker, transfer.to,
                                             new_purse, unknown)} :
       IF to_account.panic
       THEN TransferReturn(t, transfer, Aborted(to_account.tracker))
       ELSE
       \E from_balance \in {get_purse_balance(to_account.tracker,
                                              from_account.account.value, unknown)} :
       IF from_balance.panic
       THEN TransferReturn(t, transfer, Aborted(from_balance.tracker))
       ELSE IF from_balance.amount < transfer.amount
       THEN TransferReturn(t, transfer, Returned(from_balance.tracker, "insufficient"))
       ELSE
       \E to_balance \in {get_purse_balance(from_balance.tracker,
                                            to_account.main_purse, unknown)} :
       IF to_balance.panic
       THEN TransferReturn(t, transfer, Aborted(to_balance.tracker))
       ELSE
       \E debited \in {set_purse_balance(to_balance.tracker, from_account.account.value,
                                         from_balance.amount - transfer.amount, unknown)} :
       IF debited.panic
       THEN TransferReturn(t, transfer, Aborted(debited.tracker))
       ELSE
       \E credit \in {CheckedAdd(to_balance.amount, transfer.amount)} :
       IF ~credit.some
       THEN TransferReturn(t, transfer, Aborted(debited.tracker))
       ELSE
       \E credited \in {set_purse_balance(debited.tracker, to_account.main_purse,
                                          credit.value, unknown)} :
       IF credited.panic
       THEN TransferReturn(t, transfer, Aborted(credited.tracker))
       ELSE TransferReturn(t, transfer, Returned(credited.tracker, "done"))

----------------------------------------------------------------------------

Next ==
    \E t \in Threads :
        \/ \E digest \in Digests : Put(t, digest)
        \/ \E digest \in Digests : GetCached(t, digest)
        \/ GetRaw(t)
        \/ GetInsert(t)
        \/ \E state_root \in Digests : FlushBegin(t, state_root)
        \/ FlushPop(t)
        \/ FlushWrite(t)
        \/ FlushCommit(t)

Spec == Init /\ [][Next]_vars

\* The scratch store over an LMDB environment whose put and commit may fail.
NextFault ==
    \/ Next
    \/ \E t \in Threads : FlushPutFail(t)
    \/ \E t \in Threads : FlushCommitFail(t)

SpecFault == Init /\ [][NextFault]_vars

\* The LmdbTrieStore alone, driven through transactions.
NextStore ==
    \E t \in Threads :
        \/ CreateReadWriteTxn(t)
        \/ \E trie \in Tries : LmdbPut(t, trie)
        \/ TxnDrop(t)
        \/ TxnCommit(t)
        \/ \E digest \in Digests : LmdbGet(t, digest)

SpecStore == Init /\ [][NextStore]_vars

\* The scratch store with threads that may panic inside write_root_to_db.
NextPoison ==
    \/ Next
    \/ \E t \in Threads : Panic(t)
    \/ \E t \in Threads, digest \in Digests : PutPoisoned(t, digest)
    \/ \E t \in Threads, digest \in Digests : GetPoisoned(t, digest)
    \/ \E t \in Threads : GetInsertPoisoned(t)
    \/ \E t \in Threads, state_root \in Digests : FlushPoisoned(t, state_root)

SpecPoison == Init /\ [][NextPoison]_vars

\* The two ends of one connection deriving its id and the trace ids of messages.
NextConn ==
    \E t \in Threads :
        \/ ConnCreate(t)
        \/ \E count \in Counts : TraceOut(t, count)
        \/ \E count \in Counts : TraceIn(t, count)

SpecConn == InitConn /\ [][NextConn]_vars

\* One caller that puts tries under their digests and nodes that close a cycle
\* under the digest 1, and flushes.
NextCyclic ==
    \/ \E digest \in Digests : PutAny("t1", digest, TrieOf(digest))
    \/ \E trie \in LoopTries : PutAny("t1", 1, trie)
    \/ \E state_root \in Digests : FlushBegin("t1", state_root)
    \/ FlushPop("t1")
    \/ FlushWrite("t1")
    \/ FlushCommit("t1")

\* A thread inside write_root_to_db is running code without a blocking call
\* after the lock is taken: the scheduler lets it take its next step.
FlushFairness ==
    \A t \in Threads :
        /\ WF_vars(FlushPop(t))
        /\ WF_vars(FlushWrite(t))
        /\ WF_vars(FlushCommit(t))

SpecCyclic == Init /\ [][NextCyclic]_vars /\ FlushFairness

\* The owner of a StateTracker reading and setting balances and transferring.
NextTracker ==
    \/ \E purse \in URefs : GetPurseBalance("t1", purse)
    \/ \E purse \in URefs, balance \in 0..MaxMotes : SetPurseBalance("t1", purse, balance)
    \/ \E from \in AccountHashes, to \in AccountHashes, amount \in 0..MaxMotes :
          ExecuteTransfer("t1", Transfer(from, to, amount))

SpecTracker == InitTracker /\ [][NextTracker]_vars

----------------------------------------------------------------------------
(* What the claims speak of *)

\* The digests reachable from the digests of S through children(), S included.
RECURSIVE Reach(_, _)
Reach(S, n) ==
    IF n = 0 THEN S
    ELSE Reach(S \cup UNION {ChildSet(TrieOf(d)) : d \in S}, n - 1)

Closure(root) == Reach({root}, MaxDigest)

DirtyIn(c, d) == d \in DOMAIN c /\ IsDirty(c[d])

\* The trie of digest d is readable from the table itself.
Durable(table, d) == StoreGet(table, d) = Some(TrieOf(d))

Flushing(t) == pc[t] \in {"flush_loop", "flush_write"}

FlushReturned == last.op = "flush"

ValidationError(result) ==
    ~result.ok /\ result.error.kind = "TrieNotFoundDuringCacheValidate"

\* C1: a flush of a root whose whole closure was dirty in the cache at the call
\* returns Ok, and afterwards every digest of the closure is readable from the
\* table directly.
C1_FlushCompleteness ==
    (FlushReturned /\ \A d \in Closure(last.root) : DirtyIn(last.cache0, d))
        => /\ last.result.ok
           /\ \A d \in Closure(last.root) : Durable(db, d)

\* C2: with the siblings 2 and 3, their shared child 1 and the root 4 over both
\* siblings all put and none of them durable, the flush of 4 returns Ok and has
\* put the shared child into the table once.
C2_SharedSubtree ==
    (/\ FlushReturned
     /\ last.root = 4
     /\ \A d \in Closure(4) : DirtyIn(last.cache0, d)
     /\ \A d \in Closure(4) : d \notin DOMAIN last.db0)
        => /\ last.result.ok
           /\ 1 \in last.written
           /\ Durable(db, 1)

\* C3: a flush of a root whose closure holds a digest that is neither in the
\* cache nor in the table at the call fails with TrieNotFoundDuringCacheValidate
\* and leaves the table as it was.
C3_RejectsIncomplete ==
    (FlushReturned
     /\ \E d \in Closure(last.root) : d \notin DOMAIN last.cache0 /\ d \notin DOMAIN last.db0)
        => /\ ValidationError(last.result)
           /\ db = last.db0

\* A flush of 4 with 1 in neither cache nor table has failed and written nothing.
C3_Witness ==
    /\ FlushReturned
    /\ last.root = 4
    /\ DirtyIn(last.cache0, 4) /\ DirtyIn(last.cache0, 2) /\ DirtyIn(last.cache0, 3)
    /\ 1 \notin DOMAIN last.cache0 /\ 1 \notin DOMAIN last.db0
    /\ ValidationError(last.result)
    /\ db = last.db0

\* C4: when a flush returns Ok, every digest reachable from its root is in the
\* table, readable as the trie of that digest.
C4_SuccessPostcondition ==
    (FlushReturned /\ last.result.ok) => \A d \in Closure(last.root) : Durable(db, d)

\* A flush of 4 over the durable 1 and 3 has succeeded, writing 2 and 4.
C4_Witness ==
    /\ FlushReturned
    /\ last.result.ok
    /\ last.root = 4
    /\ last.written = {2, 4}
    /\ \A d \in Closure(4) : Durable(db, d)

\* The bytes a flush at flush_write is about to make durable.
Validated(t) ==
    [d \in DOMAIN frame[t].validated_tries |-> ToBytes(frame[t].validated_tries[d])]

\* C5: while a flush runs, and after it failed at the traversal, at a put or at
\* the commit, the table is what it was at the call; nothing is put before the
\* traversal has ended; the table changes in the one step of a successful
\* commit, which adds every validated trie at once.
C5_AllOrNothing ==
    [][/\ \A t \in Threads : Flushing(t) => db = frame[t].db0
       /\ \A t \in Threads : pc[t] = "flush_loop" => txn.value.writes = Empty
       /\ (last'.op = "flush" /\ ~last'.result.ok) => db' = last'.db0
       /\ db' # db =>
            \E t \in Threads :
                /\ pc[t] = "flush_write"
                /\ last'.op = "flush" /\ last'.result.ok
                /\ db' = Overlay(db, Validated(t))]_vars

\* A flush of 2 over the dirty 1 and 2 has failed at its second put.
C5_Witness ==
    /\ FlushReturned
    /\ ~last.result.ok /\ last.result.error = LmdbError
    /\ last.root = 2
    /\ DirtyIn(last.cache0, 1) /\ DirtyIn(last.cache0, 2)
    /\ last.written = {2}
    /\ db = last.db0
    /\ 1 \notin DOMAIN db /\ 2 \notin DOMAIN db

GetReturn(digest, result, raw_read) ==
    [op |-> "get", digest |-> digest, result |-> result, raw_read |-> raw_read]

\* C6: put leaves the table and the transaction alone and stores the dirty
\* entry of the trie put; a get of a digest whose entry is dirty returns the
\* trie that was put, from the cache, and the table is unchanged by it.
C6_WriteBufferingIsolation ==
    [][\A t \in Threads, d \in Digests :
          /\ Put(t, d) => /\ db' = db /\ txn' = txn
                          /\ cache'[d] = Entry(TRUE, TrieOf(d))
          /\ (GetCached(t, d) /\ DirtyIn(cache, d)) =>
                /\ last' = GetReturn(d, Ok(Some(TrieOf(d))), FALSE)
                /\ db' = db]_vars

\* A get of 2 has returned the trie put, with nothing in the table.
C6_Witness ==
    /\ last = GetReturn(2, Ok(Some(TrieOf(2))), FALSE)
    /\ DirtyIn(cache, 2)
    /\ db = Empty

\* C7 as stated: a get that missed the cache and hit the table leaves the clean
\* entry (false, node) in the cache.
C7_CleanAfterReadThrough ==
    [][\A t \in Threads :
          GetInsert(t) => cache'[frame[t].digest] = Entry(FALSE, frame[t].value)]_vars

\* C7, amended: a get that missed the cache and hit the table leaves an entry
\* with the node in the cache, the clean one if the key was still absent at the
\* insert and otherwise the entry that was put meanwhile, untouched; an entry
\* stays, with its node, until a flush removes it; and a get that finds a
\* clean entry returns its node without reading the table.
C7_ReadThroughPopulation ==
    [][/\ \A t \in Threads :
            GetInsert(t) =>
                LET d == frame[t].digest
                IN /\ d \in DOMAIN cache'
                   /\ TrieIn(cache'[d]) = frame[t].value
                   /\ last' = GetReturn(d, Ok(Some(frame[t].value)), TRUE)
                   /\ IF d \in DOMAIN cache THEN cache'[d] = cache[d]
                      ELSE cache'[d] = Entry(FALSE, frame[t].value)
       /\ \A d \in DOMAIN cache :
            (\A t \in Threads : pc[t] # "flush_loop") =>
                d \in DOMAIN cache' /\ TrieIn(cache'[d]) = TrieIn(cache[d])
       /\ \A t \in Threads, d \in Digests :
            (GetCached(t, d) /\ d \in DOMAIN cache /\ ~IsDirty(cache[d])) =>
                last' = GetReturn(d, Ok(Some(TrieIn(cache[d]))), FALSE)]_vars

\* A get has returned the node of a clean entry without reading the table.
C7_Witness ==
    /\ last = GetReturn(2, Ok(Some(TrieOf(2))), FALSE)
    /\ 2 \in DOMAIN cache /\ ~IsDirty(cache[2])

\* C8: a get of a digest that is in the cache returns the cached node, dirty
\* or clean, without reading the table; a get that found the digest neither in
\* the cache nor, at its read, in the table returns None and leaves the cache
\* as it is.
C8_CacheAuthoritative ==
    [][\A t \in Threads :
          /\ \A d \in Digests :
                (GetCached(t, d) /\ d \in DOMAIN cache) =>
                    /\ last' = GetReturn(d, Ok(Some(TrieIn(cache[d]))), FALSE)
                    /\ pc'[t] = "idle"
          /\ (GetRaw(t) /\ frame[t].digest \notin DOMAIN db) =>
                    /\ last' = GetReturn(frame[t].digest, Ok(None), TRUE)
                    /\ pc'[t] = "idle"
                    /\ cache' = cache]_vars

\* A get has returned None after reading the table, and made no entry.
C8_Witness ==
    /\ last = GetReturn(3, Ok(None), TRUE)
    /\ 3 \notin DOMAIN cache
    /\ 3 \notin DOMAIN db
    /\ cache # Empty

\* C9: the writes of an open read-write transaction are not in the committed
\* table, and after the transaction was dropped without commit the table is
\* what it was when the transaction was opened.
C9_NoImplicitCommit ==
    /\ \A t \in Threads : pc[t] = "rw_txn" => db = frame[t].db0
    /\ last.op = "drop" => db = last.db0

\* A transaction that put the tries 1 and 2 was dropped, and neither is read.
C9_Witness ==
    /\ last.op = "drop"
    /\ last.puts = {TrieOf(1), TrieOf(2)}
    /\ StoreGet(db, 1) = None /\ StoreGet(db, 2) = None

\* C10: after a commit every trie put in the transaction is read back, equal,
\* under its digest; every entry of the table decodes to a trie whose digest is
\* its key, so equal tries share one entry.
C10_RoundTrip ==
    /\ last.op = "commit" => \A n \in last.puts : StoreGet(db, Hash(n)) = Some(n)
    /\ \A d \in DOMAIN db : Hash(FromBytes(db[d])) = d
    /\ (last.op = "lmdb_get" /\ ~txn.some) => last.result = Ok(StoreGet(db, last.digest))

\* A read transaction has read the committed trie 4 back under its digest.
C10_Witness ==
    /\ last.op = "lmdb_get" /\ last.digest = 4
    /\ last.result = Ok(Some(TrieOf(4)))
    /\ ~txn.some

\* C11: once the cache lock is poisoned, the cache and the table never change
\* again and the lock stays poisoned; a put, a write_root_to_db and a get that
\* come to take the lock return Err(Poison), the get at either of its two
\* critical sections; a put that finds the lock not poisoned returns Ok.
C11_LockPoisoning ==
    [][/\ lock = "poisoned" => (cache' = cache /\ db' = db /\ lock' = "poisoned")
       /\ (lock = "poisoned" /\ last' # last /\ last'.op \in {"put", "flush"}) =>
            last'.result = Err(Poison)
       /\ (lock = "poisoned" /\ last' # last /\ last'.op = "get") =>
            \/ last'.result = Err(Poison)
            \/ \E t \in Threads : GetRaw(t)
       /\ \A t \in Threads, d \in Digests :
            (Put(t, d) \/ PutPoisoned(t, d)) =>
                last'.result = IF lock = "poisoned" THEN Err(Poison) ELSE Ok("unit")]_vars

\* A put on the poisoned lock has returned the Poison error; the cache still
\* holds what the panicked flush had left in it.
C11_Witness ==
    /\ lock = "poisoned"
    /\ last = [op |-> "put", digest |-> 2, result |-> Err(Poison)]
    /\ 2 \notin DOMAIN cache
    /\ cache # Empty

Connected(t) == pc[t] = "connected"

\* C12: the two ends of a connection, which pass the same random data and the
\* two node ids in opposite order, derive the same ConnectionId; and creating
\* with the ids swapped gives the id again, for every end.
C12_SameOnBothEnds ==
    /\ (Connected("t1") /\ Connected("t2")) => frame["t1"].id = frame["t2"].id
    /\ \A t \in Threads :
          Connected(t) =>
              frame[t].id.value =
                  create(frame[t].random_data, frame[t].their_id, frame[t].our_id)

\* Both ends have derived the id from two node ids that differ.
C12_Witness ==
    /\ Connected("t1") /\ Connected("t2")
    /\ frame["t1"].our_id # frame["t1"].their_id
    /\ frame["t1"].id = frame["t2"].id
    /\ frame["t1"].id.value # DigestHash(frame["t1"].random_data)

\* C13: on one connection, the trace id an end derives when it sends message n
\* (its out_flag) is the one its peer derives when it receives message n (the
\* peer's in_flag), from the same buffer; in_flag is the complement of out_flag
\* and the Listener's out_flag the complement of the Dialer's; the flags of the
\* two directions differ and so do the buffers hashed for them; and the buffers
\* of one direction differ for different counts.
C13_TraceIdsAgree ==
    /\ out_flag("Listener") = BitNot(out_flag("Dialer"))
    /\ \A role \in Roles : in_flag(role) = BitNot(out_flag(role))
    /\ \A t \in Threads : \A u \in Threads \ {t} :
          /\ (frame[t].out.some /\ frame[u].in.some) =>
                LET sent == frame[t].out.value
                    received == frame[u].in.value
                IN /\ sent.flag = received.flag
                   /\ sent.count = received.count =>
                        /\ sent.buffer = received.buffer
                        /\ sent.trace_id = received.trace_id
                        /\ sent.trace_id =
                              create_trace_id(frame[u].id.value, in_flag(RoleOf(u)),
                                              sent.count, frame[u].endian)
                   /\ sent.count # received.count => sent.buffer # received.buffer
          /\ (frame[t].out.some /\ frame[u].out.some) =>
                /\ frame[t].out.value.flag # frame[u].out.value.flag
                /\ frame[t].out.value.buffer # frame[u].out.value.buffer

\* The dialer has sent its message 1 and the listener has received it under the
\* same trace id, while the listener's own message 1 has another buffer.
C13_Witness ==
    /\ frame["t1"].out.some /\ frame["t2"].in.some /\ frame["t2"].out.some
    /\ frame["t1"].out.value.count = 1
    /\ frame["t2"].in.value.count = 1
    /\ frame["t2"].out.value.count = 1
    /\ frame["t1"].out.value.flag = MAGIC_FLAG
    /\ frame["t1"].out.value.trace_id = frame["t2"].in.value.trace_id
    /\ frame["t1"].out.value.buffer # frame["t2"].out.value.buffer

\* C14: the second critical section of a get leaves the whole cache as it is
\* when an entry for its digest is there at the insert, so the dirty entry of a
\* put that landed after the miss is still the dirty entry with the trie put;
\* it changes the cache only when the digest is absent at the insert, and then
\* by adding the clean entry and nothing else.
C14_NoClobber ==
    [][\A t \in Threads :
          GetInsert(t) =>
              LET d == frame[t].digest
              IN /\ DirtyIn(cache, d) =>
                      /\ cache' = cache
                      /\ cache'[d] = Entry(TRUE, TrieOf(d))
                 /\ cache' # cache =>
                      /\ d \notin DOMAIN cache
                      /\ cache' = Insert(cache, d, Entry(FALSE, frame[t].value))
                 /\ \A e \in DOMAIN cache : cache'[e] = cache[e]]_vars

\* A get of 2 that missed the cache and read the table has returned while the
\* entry of a put of 2 that landed in between is still dirty.
C14_Witness ==
    /\ last = GetReturn(2, Ok(Some(TrieOf(2))), TRUE)
    /\ DirtyIn(cache, 2)
    /\ \A t \in Threads : pc[t] = "idle"

\* C15: a thread inside write_root_to_db holds the cache lock from the step that
\* starts the call to the step that returns from it; while it does, no other
\* thread takes a put step or either cache step of a get, and the cache changes
\* only by the flush's own traversal; a thread that is idle or between the two
\* critical sections of a get, where the table is read, does not hold the lock.
C15_FlushExclusivity ==
    [][/\ \A t \in Threads :
            /\ Flushing(t) => lock = t
            /\ Flushing(t)' => (Flushing(t) \/ FlushBegin(t, frame'[t].root))
            /\ Flushing(t) =>
                  /\ \A u \in Threads, d \in Digests :
                        ~Put(u, d) /\ ~GetCached(u, d) /\ ~GetInsert(u)
                  /\ cache' # cache => FlushPop(t)
                  /\ ~Flushing(t)' => (lock' = "free" /\ last'.op = "flush")
            /\ pc[t] \in {"idle", "get_raw", "get_insert"} => lock # t
       /\ \A t \in Threads : GetRaw(t) => UNCHANGED <<lock, cache>>]_vars

\* While one thread is in the middle of a flush, holding the lock, the other is
\* between the two critical sections of a get.
C15_Witness ==
    /\ pc["t2"] = "flush_loop"
    /\ lock = "t2"
    /\ DOMAIN frame["t2"].validated_tries # {}
    /\ frame["t2"].missing_trie_keys # <<>>
    /\ pc["t1"] = "get_insert"

\* The key the next iteration of t's traversal pops.
Popped(t) == frame[t].missing_trie_keys[Len(frame[t].missing_trie_keys)]

\* C16: an iteration of the traversal returns from the flush, with the error
\* TrieNotFoundDuringCacheValidate of the key it popped, exactly when the cache
\* is empty at the pop (whether or not the key is in the table) or the key is
\* in neither the cache nor the table; it then returns in that very step, with
\* the transaction dropped and the table as it was; otherwise the key was found
\* and the flush goes on; and no other step returns that error.
C16_ValidationError ==
    [][/\ \A t \in Threads :
            FlushPop(t) =>
                LET d == Popped(t)
                    missing == \/ cache = Empty
                               \/ d \notin DOMAIN cache /\ d \notin DOMAIN db
                IN /\ missing <=> pc'[t] = "idle"
                   /\ missing =>
                        /\ last'.op = "flush"
                        /\ last'.result = Err(TrieNotFoundDuringCacheValidate(d))
                        /\ last'.written = {}
                        /\ db' = db /\ txn' = None /\ lock' = "free"
                        /\ cache' = cache
                   /\ ~missing =>
                        /\ Flushing(t)'
                        /\ d \in DOMAIN cache \/ Durable(db, d)
                        /\ UNCHANGED <<db, last>>
       /\ (last' # last /\ last'.op = "flush" /\ ValidationError(last'.result)) =>
            \E t \in Threads : FlushPop(t)]_vars

\* A flush has failed on a popped key that is in the table: the cache was empty
\* at the pop.
C16_Witness ==
    /\ FlushReturned
    /\ ValidationError(last.result)
    /\ Durable(last.db0, last.result.error.digest)
    /\ cache = Empty
    /\ last.cache0 # Empty

\* The digests reached from S through dirty entries of the cache c only.
RECURSIVE DirtyReachFrom(_, _, _)
DirtyReachFrom(c, S, n) ==
    IF n = 0 THEN S
    ELSE DirtyReachFrom(c,
            S \cup {k \in UNION {ChildSet(TrieIn(c[d])) : d \in S} : DirtyIn(c, k)},
            n - 1)

DirtyReach(c, root) ==
    IF DirtyIn(c, root) THEN DirtyReachFrom(c, {root}, MaxDigest) ELSE {}

\* C17: the step in which a flush commits and returns Ok makes durable exactly
\* the entries that were dirty at the call and are reached from the root over
\* dirty entries only, each with its trie: nothing that was clean or only in the
\* table, and nothing below such a digest unless another dirty chain leads
\* there; the dirty entries not so reached are still in the cache, unchanged.
C17_FlushWritesDirtyReach ==
    [][\A t \in Threads :
          FlushCommit(t) =>
              LET cache0 == frame[t].cache0
                  reached == DirtyReach(cache0, frame[t].root)
              IN /\ last'.result.ok
                 /\ last'.written = reached
                 /\ DOMAIN frame[t].validated_tries = reached
                 /\ db' = Overlay(db, [d \in reached |-> ToBytes(TrieIn(cache0[d]))])
                 /\ \A d \in DOMAIN cache0 :
                        ~IsDirty(cache0[d]) => d \notin last'.written
                 /\ \A d \in DOMAIN cache0 :
                        (IsDirty(cache0[d]) /\ d \notin reached) =>
                            d \in DOMAIN cache' /\ cache'[d] = cache0[d]]_vars

\* A flush of 4 over the clean 2 and the table-only 3 has written 4 alone; the
\* dirty 1 below them was not reached, is not in the table's new entries and is
\* still dirty in the cache.
C17_Witness ==
    /\ FlushReturned /\ last.result.ok
    /\ last.root = 4
    /\ 2 \in DOMAIN last.cache0 /\ ~IsDirty(last.cache0[2])
    /\ 3 \notin DOMAIN last.cache0
    /\ DirtyIn(last.cache0, 1)
    /\ last.written = {4}
    /\ DirtyIn(cache, 1)
    /\ db = Overlay(last.db0, [d \in {4} |-> ToBytes(TrieOf(4))])

\* C18 as stated: the step in which a flush commits and returns Ok leaves no
\* entry in the cache for any digest of the closure of its root.
C18_ClosureDrained ==
    [][\A t \in Threads :
          FlushCommit(t) =>
              \A d \in Closure(frame[t].root) : d \notin DOMAIN cache']_vars

\* The keys a successful traversal pops: the root and the children of every
\* dirty entry reached from it over dirty entries.
PoppedKeys(c, root) ==
    {root} \cup UNION {ChildSet(TrieIn(c[d])) : d \in DirtyReach(c, root)}

\* C18, amended: the step in which a flush commits and returns Ok leaves the
\* cache as it was at the call less the entries, dirty or clean, of the keys
\* the traversal popped; an entry of the closure that is still there belongs to
\* a digest below a clean entry or below a digest that was in the table only.
C18_PoppedDrained ==
    [][\A t \in Threads :
          FlushCommit(t) =>
              LET cache0 == frame[t].cache0
                  popped == PoppedKeys(cache0, frame[t].root)
              IN /\ cache' = [d \in DOMAIN cache0 \ popped |-> cache0[d]]
                 /\ \A d \in popped : d \notin DOMAIN cache'
                 /\ \A d \in Closure(frame[t].root) \cap DOMAIN cache' :
                        \E p \in popped :
                            /\ ~DirtyIn(cache0, p)
                            /\ d \in Closure(p) \ {p}]_vars

\* A flush of 4 has succeeded and removed the dirty 4 and the clean 2 from the
\* cache, while the entry of 1, below 2, is still there.
C18_Witness ==
    /\ FlushReturned /\ last.result.ok
    /\ last.root = 4
    /\ \A t \in Threads : ~Flushing(t)
    /\ DirtyIn(last.cache0, 4)
    /\ 2 \in DOMAIN last.cache0 /\ ~IsDirty(last.cache0[2])
    /\ 1 \in DOMAIN last.cache0
    /\ DOMAIN cache = {1}

\* C19: a put of d leaves the cache with the dirty entry of the trie put under
\* d, whether d had no entry, a clean one or a dirty one, and with every other
\* entry as it was; and a step that takes an entry out of the cache is an
\* iteration of a flush traversal, never a step of put or get.
C19_PutOverwrites ==
    [][/\ \A t \in Threads, d \in Digests :
            Put(t, d) =>
                /\ DOMAIN cache' = DOMAIN cache \cup {d}
                /\ cache'[d] = Entry(TRUE, TrieOf(d))
                /\ \A e \in DOMAIN cache \ {d} : cache'[e] = cache[e]
                /\ last' = [op |-> "put", digest |-> d, result |-> Ok("unit")]
       /\ (DOMAIN cache \ DOMAIN cache' # {}) =>
            /\ \E t \in Threads : FlushPop(t)
            /\ \A t \in Threads, d \in Digests :
                  ~Put(t, d) /\ ~GetCached(t, d) /\ ~GetRaw(t) /\ ~GetInsert(t)]_vars

\* A put of 2 has returned; 2 is in the table, where only a get could have made
\* a clean entry of it, and is dirty in the cache next to the clean entry of 1.
C19_Witness ==
    /\ last = [op |-> "put", digest |-> 2, result |-> Ok("unit")]
    /\ DirtyIn(cache, 2) /\ TrieIn(cache[2]) = TrieOf(2)
    /\ 1 \in DOMAIN cache /\ ~IsDirty(cache[1])
    /\ Durable(db, 2)

\* C20: in every state, whatever flushes have committed or failed at a put or
\* at the commit, every clean entry of the cache has its digest in the committed
\* table, and the table's bytes decode to the node of the entry.
C20_CleanImpliesDurable ==
    \A d \in DOMAIN cache :
        ~IsDirty(cache[d]) =>
            /\ d \in DOMAIN db
            /\ StoreGet(db, d) = Some(TrieIn(cache[d]))

\* The clean entry of 4 is in the cache next to a dirty entry, after a flush
\* that failed in the table, and 4 is read from the table as the same node.
C20_Witness ==
    /\ 4 \in DOMAIN cache /\ ~IsDirty(cache[4])
    /\ StoreGet(db, 4) = Some(TrieIn(cache[4]))
    /\ DirtyIn(cache, 1)
    /\ FlushReturned /\ ~last.result.ok /\ last.result.error = LmdbError

\* No digest is a child twice among the dirty entries reached from the root.
TreeShaped(c, root) ==
    LET reached == DirtyReach(c, root)
    IN /\ \A p \in reached :
            LET kids == children(TrieIn(c[p]))
            IN kids.some => Len(kids.value) = Cardinality(ChildSet(TrieIn(c[p])))
       /\ \A p \in reached, q \in reached :
            p # q => ChildSet(TrieIn(c[p])) \cap ChildSet(TrieIn(c[q])) = {}

\* C21: a flush of a root that was dirty in the cache at the call, with every
\* key the traversal has to pop in the cache or in the table at the call and no
\* child shared among the dirty entries, returns Ok.
C21_SucceedsOnGuarantee ==
    (/\ FlushReturned
     /\ DirtyIn(last.cache0, last.root)
     /\ TreeShaped(last.cache0, last.root)
     /\ \A d \in PoppedKeys(last.cache0, last.root) :
            d \in DOMAIN last.cache0 \/ Durable(last.db0, d))
        => last.result.ok

\* Every node of the table has all of its children in the table.
ClosedUnderChildren(table) ==
    \A d \in DOMAIN table : ChildSet(FromBytes(table[d])) \subseteq DOMAIN table

\* C22: in every state reached from the empty table by puts, gets and flushes
\* that succeed, fail at the validation, fail at a put or fail at the commit,
\* every node of the committed table has all of its children in the table.
C22_DurableClosed ==
    ClosedUnderChildren(db)

\* The table holds the node 4 with both of its children and their child, after
\* two flushes, the second of them over the durable 2 and 3.
C22_Witness ==
    /\ DOMAIN db = {1, 2, 3, 4}
    /\ ChildSet(FromBytes(db[4])) = {2, 3}
    /\ FlushReturned /\ last.result.ok
    /\ last.written = {4}
    /\ DOMAIN last.db0 = {1, 2, 3}

\* C23: the step in which a flush returns a validation error leaves the cache as
\* it was at the call less the entries the traversal had removed, all of them
\* keys it visited and every validated dirty one among them; the table is as it
\* was at the call, so a removed entry whose digest was not in the table then
\* is in neither and is read as None; the entries not visited are as they were;
\* and no step but a put or the insert of a get brings an entry into the cache.
C23_FailedFlushDestructive ==
    [][/\ \A t \in Threads :
            (FlushPop(t) /\ pc'[t] = "idle") =>
                LET cache0 == frame[t].cache0
                    removed == DOMAIN cache0 \ DOMAIN cache'
                IN /\ ValidationError(last'.result)
                   /\ cache' = [d \in DOMAIN cache0 \ removed |-> cache0[d]]
                   /\ DOMAIN frame[t].validated_tries \subseteq removed
                   /\ \A d \in DOMAIN frame[t].validated_tries : IsDirty(cache0[d])
                   /\ removed \subseteq PoppedKeys(cache0, frame[t].root)
                   /\ db' = frame[t].db0
                   /\ \A d \in removed :
                        d \notin DOMAIN frame[t].db0 =>
                            /\ CacheGet(cache', d) = None
                            /\ StoreGet(db', d) = None
       /\ (DOMAIN cache' \ DOMAIN cache # {}) =>
            \E t \in Threads : GetInsert(t) \/ \E d \in Digests : Put(t, d)]_vars

\* A flush of 2 has failed on the missing 1 after taking the dirty 2 out of the
\* cache; a get of 2 has missed the cache and will find nothing in the table,
\* while the unvisited dirty 3 is still in the cache.
C23_Witness ==
    /\ FlushReturned /\ ValidationError(last.result)
    /\ last.root = 2 /\ last.result.error.digest = 1
    /\ DirtyIn(last.cache0, 2) /\ DirtyIn(last.cache0, 3)
    /\ 2 \notin DOMAIN cache /\ 2 \notin DOMAIN db
    /\ DirtyIn(cache, 3)
    /\ pc["t1"] = "get_raw" /\ frame["t1"].digest = 2

\* C24: a thread that is inside write_root_to_db, over any cache, with shared
\* children or with cycles among the entries, comes to return from it.
C24_TraversalTerminates ==
    \A t \in Threads : Flushing(t) ~> ~Flushing(t)

\* A flush of 1 has returned Ok over a cache in which 1 pointed at 2 and 2 at 1,
\* and has written both.
C24_Witness ==
    /\ FlushReturned /\ last.result.ok
    /\ last.root = 1
    /\ DirtyIn(last.cache0, 1) /\ DirtyIn(last.cache0, 2)
    /\ ChildSet(TrieIn(last.cache0[1])) = {2}
    /\ ChildSet(TrieIn(last.cache0[2])) = {1}
    /\ last.written = {1, 2}

\* The balance of a purse as the tracker sees it.
Balance(tr, purse) ==
    IF purse \in DOMAIN tr.purses_cache THEN tr.purses_cache[purse]
    ELSE IF purse \in DOMAIN tr.builder_balances THEN tr.builder_balances[purse]
    ELSE 0

TrackedSum(tr) ==
    SumOver([purse \in KnownPurses(tr) |-> Balance(tr, purse)], KnownPurses(tr))

AccountKnown(tr, account_hash) ==
    account_hash \in DOMAIN tr.accounts_cache \cup DOMAIN tr.builder_accounts

MainPurse(tr, account_hash) ==
    IF account_hash \in DOMAIN tr.accounts_cache THEN tr.accounts_cache[account_hash]
    ELSE tr.builder_accounts[account_hash]

\* C25: a call of set_purse_balance(purse, b) returns, without a panic, with
\* the balance of the purse b and the total supply moved by b minus the balance
\* before; it writes nothing when the two are equal; and the total supply less
\* the sum of the tracked balances is what it was.
C25_SetPurseBalance ==
    last.op = "set_purse_balance" =>
        LET c == Balance(last.before, last.purse)
            b == last.balance
        IN /\ ~last.panic
           /\ Balance(last.after, last.purse) = b
           /\ last.after.total_supply = last.before.total_supply + b - c
           /\ b = c => last.after.entries_to_write = last.before.entries_to_write
           /\ last.after.total_supply - TrackedSum(last.after)
                = last.before.total_supply - TrackedSum(last.before)

\* C26: a call of execute_transfer between two accounts that exist, with at
\* least the amount in the main purse of 'from', returns with the amount moved
\* from the one main purse to the other, and with the total supply and the sum
\* of the tracked balances as they were.
C26_TransferConserves ==
    (/\ last.op = "execute_transfer"
     /\ AccountKnown(last.before, last.transfer.from)
     /\ AccountKnown(last.before, last.transfer.to)
     /\ Balance(last.before, MainPurse(last.before, last.transfer.from))
            >= last.transfer.amount)
        => LET from == last.transfer.from
               to == last.transfer.to
               from_purse == MainPurse(last.before, from)
           IN /\ ~last.panic /\ last.how = "done"
              /\ from # to =>
                    /\ Balance(last.after, from_purse)
                         = Balance(last.before, from_purse) - last.transfer.amount
                    /\ Balance(last.after, MainPurse(last.after, to))
                         = Balance(last.before, MainPurse(last.after, to))
                             + last.transfer.amount
              /\ last.after.total_supply = last.before.total_supply
              /\ TrackedSum(last.after) = TrackedSum(last.before)

\* C27: a call of execute_transfer for a 'from' account that is missing, or
\* whose main purse holds less than the amount, returns early and has left
\* entries_to_write, the total supply and every balance as they were, and has
\* made no account and no purse.
C27_RejectedChangesNothing ==
    (/\ last.op = "execute_transfer"
     /\ \/ ~AccountKnown(last.before, last.transfer.from)
        \/ Balance(last.before, MainPurse(last.before, last.transfer.from))
              < last.transfer.amount)
        => /\ ~last.panic
           /\ last.how \in {"no_from", "insufficient"}
           /\ last.after.entries_to_write = last.before.entries_to_write
           /\ last.after.total_supply = last.before.total_supply
           /\ \A purse \in URefs : Balance(last.after, purse) = Balance(last.before, purse)
           /\ \A a \in AccountHashes :
                AccountKnown(last.after, a) => AccountKnown(last.before, a)
           /\ KnownPurses(last.after) = KnownPurses(last.before)

====
